---- MODULE Spec2Model ----
(***************************************************************************)
(* Model of src/lib/Emitter.js (remit): the Emitter's option             *)
(* normalisation (_generateOptions), the delay resolver                   *)
(* (_setupDemitQueue) and the send coroutine (_send), run by several      *)
(* concurrent sends over one shared worker pool.                          *)
(*                                                                         *)
(* JavaScript values are records [t, n, s]: t is the kind of the value,   *)
(* n its number (for a number or a Date's timestamp), s its text.         *)
(* Durations and timestamps are counted in ticks, TicksPerMs ticks to the *)
(* millisecond, so that a delay below one millisecond is a value of the   *)
(* model; Date timestamps and the clock are whole milliseconds.           *)
(***************************************************************************)
EXTENDS Integers, Sequences, FiniteSets, TLC

\* ---------------------------------------------------------------- bounds
NumSends == 2
PoolSize == 1
MaxClock == 1
MaxOptionsCalls == 1
TicksPerMs == 2

Sends == 1..NumSends
Handles == 1..PoolSize
OneMs == TicksPerMs

\* ------------------------------------------------------ JavaScript values
Absent == [t |-> "absent", n |-> 0, s |-> ""]
Undefined == [t |-> "undefined", n |-> 0, s |-> ""]
Null == [t |-> "null", n |-> 0, s |-> ""]
NaN == [t |-> "nan", n |-> 0, s |-> ""]
InvalidDate == [t |-> "invalidDate", n |-> 0, s |-> ""]
Obj == [t |-> "object", n |-> 0, s |-> ""]
Num(n) == [t |-> "number", n |-> n, s |-> ""]
Str(s) == [t |-> "string", n |-> 0, s |-> s]
DateAt(n) == [t |-> "date", n |-> n, s |-> ""]
True == [t |-> "boolean", n |-> 1, s |-> ""]

\* reading a property: a missing key reads as undefined
Get(v) == IF v = Absent THEN Undefined ELSE v

\* ms(str): the duration a string names, undefined when it names none
Ms(str) ==
  CASE str = "5m" -> Num(300000 * OneMs)
    [] str = "1ms" -> Num(OneMs)
    [] str = "2ms" -> Num(2 * OneMs)
    [] OTHER -> Undefined

\* Number(v), the coercion behind isNaN(v) and +v
ToNumber(v) ==
  CASE v.t = "number" -> v
    [] v.t = "null" -> Num(0)
    [] v.t = "date" -> Num(v.n)
    [] v.t = "string" /\ v.s = "" -> Num(0)
    [] OTHER -> NaN

IsNaN(v) == ToNumber(Get(v)).t = "nan"

\* truthiness of a value in a condition
Truthy(v) ==
  CASE v.t \in {"absent", "undefined", "null", "nan"} -> FALSE
    [] v.t = "number" -> v.n # 0
    [] v.t = "string" -> v.s # ""
    [] OTHER -> TRUE

\* v instanceof Date, and v.toString() === 'Invalid Date'
IsDate(v) == v.t \in {"date", "invalidDate"}
IsInvalidDateText(v) == v.t = "invalidDate"

\* arithmetic and comparison of numbers, NaN included
JsSub(a, b) == IF a.t = "nan" \/ b.t = "nan" THEN NaN ELSE Num(a.n - b.n)
JsAdd(a, b) == IF a.t = "nan" \/ b.t = "nan" THEN NaN ELSE Num(a.n + b.n)
JsTimes(a, k) == IF a.t = "nan" THEN NaN ELSE Num(a.n * k)
JsLt(a, b) == a.t = "number" /\ b.t = "number" /\ a.n < b.n
JsGt(a, b) == a.t = "number" /\ b.t = "number" /\ a.n > b.n

\* ---------------------------------------------------------------- options
Keys == {"event", "priority", "delay", "schedule"}
NoOpts == [k \in Keys |-> Absent]

\* Object.assign({}, a, b): every own key of b, undefined values too, wins
Assign(a, b) == [k \in Keys |-> IF b[k] # Absent THEN b[k] ELSE a[k]]

\* _generateOptions(opts) with this._options = defaults
NormalizedDelay(opts) ==
  IF opts.delay = Absent THEN NoOpts
  ELSE IF opts.delay.t = "string"
    THEN [NoOpts EXCEPT !.delay = Ms(opts.delay.s), !.schedule = Null]
  ELSE IF opts.delay.t = "date"
    THEN [NoOpts EXCEPT !.delay = Null, !.schedule = opts.delay]
  ELSE [NoOpts EXCEPT !.delay = opts.delay, !.schedule = Null]

GenerateOptions(defaults, opts) ==
  Assign(Assign(defaults, opts), NormalizedDelay(opts))

\* --------------------------------------------------------- delay resolver
Exchange == "remit"
InvalidDelayError == "Invalid delay date or duration when attempting to send a delayed emission"
InvalidPriorityError == "Invalid priority when making request"

NoQueue == [exchange |-> "", event |-> Absent, group |-> Absent]
NoQueueOpts ==
  [exclusive |-> FALSE, durable |-> FALSE, autoDelete |-> FALSE,
   deadLetterExchange |-> "", deadLetterRoutingKey |-> Absent,
   messageTtl |-> Absent, expires |-> Absent]

\* `d:${exchange}:${event}:${group}`, kept as its parts
QueueName(exchange, event, group) ==
  [exchange |-> exchange, event |-> event, group |-> group]

\* (a group key that is the delay even when scheduling)
GroupDelayOnly(opts) == Get(opts.delay)

\* the group key and the expiration of lines 201-202
Group(opts) ==
  IF Truthy(Get(opts.schedule)) THEN ToNumber(Get(opts.schedule)) ELSE Get(opts.delay)

Expiration(opts, time) ==
  IF Truthy(Get(opts.schedule))
    THEN JsSub(ToNumber(Get(opts.schedule)), Num(time))
    ELSE Get(opts.delay)

QueueOpts(opts, expiration) ==
  IF Truthy(Get(opts.delay))
    THEN [exclusive |-> FALSE, durable |-> TRUE, autoDelete |-> TRUE,
          deadLetterExchange |-> Exchange, deadLetterRoutingKey |-> Get(opts.event),
          messageTtl |-> expiration, expires |-> JsTimes(expiration, 2)]
    ELSE [exclusive |-> FALSE, durable |-> TRUE, autoDelete |-> TRUE,
          deadLetterExchange |-> Exchange, deadLetterRoutingKey |-> Get(opts.event),
          messageTtl |-> Absent, expires |-> JsAdd(expiration, Num(60000 * OneMs))]

\* (a test that takes only a negative expiration as due)
DueNowNegative(expiration) == JsLt(expiration, Num(0))

\* line 204: expiration < 1 (millisecond)
DueNow(expiration) == JsLt(expiration, Num(OneMs))

\* _setupDemitQueue up to its first await: return false, throw, or go on to
\* declare the queue with the computed name, expiration and options
SetupPlan(opts, time) ==
  LET delay == Get(opts.delay)
      schedule == Get(opts.schedule)
      expiration == Expiration(opts, time)
      none == [kind |-> "false", queue |-> NoQueue, expiration |-> Absent,
               queueOpts |-> NoQueueOpts]
  IN  IF IsNaN(delay) /\ ~Truthy(schedule) THEN none
      ELSE IF (~Truthy(delay) \/ IsNaN(delay))
              /\ (~Truthy(schedule) \/ ~IsDate(schedule) \/ IsInvalidDateText(schedule))
        THEN [none EXCEPT !.kind = "throw"]
      ELSE IF DueNow(expiration) THEN none
      ELSE [kind |-> "declare",
            queue |-> QueueName(Exchange, Get(opts.event), Group(opts)),
            expiration |-> expiration,
            queueOpts |-> QueueOpts(opts, expiration)]

\* ------------------------------------------------------------ collaborators
\* JSON.stringify(data): text, or undefined for a function or undefined
Fn == [t |-> "function", n |-> 0, s |-> ""]
JsonStringify(data) ==
  CASE data.t \in {"function", "undefined", "absent"} -> Undefined
    [] data.t = "null" -> Str("null")
    [] data.t = "object" -> Str("{\"id\":1}")
    [] OTHER -> Str("?")

\* JSON.parse(text)
JsonParse(text) ==
  CASE text = "null" -> Null
    [] text = "{\"id\":1}" -> Obj
    [] OTHER -> Undefined

\* lines 94-101: the body text, 'null' when the payload has no JSON form
\* (data = null is the default of an undefined argument)
ParsedDataUnchecked(data) ==
  LET d == IF Get(data).t = "undefined" THEN Null ELSE data
  IN  JsonStringify(d).s

ParsedData(data) ==
  LET d == IF Get(data).t = "undefined" THEN Null ELSE data
  IN  IF JsonStringify(d).t = "undefined" THEN "null" ELSE JsonStringify(d).s

\* genUuid(): a fresh identifier for each call, here the next unused number
GenUuid(used) == used + 1

\* parseEvent(message, {routingKey}, data, {flowType: 'exit'})
ParseEvent(message, routingKey, data) ==
  [eventId |-> message.messageId, eventType |-> routingKey, data |-> data,
   flowType |-> "exit"]

NoEvent == [eventId |-> 0, eventType |-> Absent, data |-> Absent, flowType |-> ""]

\* what assertQueue, publish/sendToQueue, span.finish, parseEvent and a 'sent'
\* listener may throw
XExpiresConflict == "406 PRECONDITION_FAILED - inequivalent arg 'x-expires'"
XMessageTtlConflict == "406 PRECONDITION_FAILED - inequivalent arg 'x-message-ttl'"
AssertErrors == {XExpiresConflict, XMessageTtlConflict, "Channel closed", "no message"}
PublishErrors == {"Channel closed", "Channel ended"}
SpanError == "span.finish failed"
ParseEventError == "parseEvent failed"
ListenerError == "listener failed"

\* e.message && e.message.substr(94, 28): the broker's text puts the
\* conflicting argument at offset 94
Substr94(e) ==
  CASE e = XExpiresConflict -> "inequivalent arg 'x-expires'"
    [] e = XMessageTtlConflict -> "inequivalent arg 'x-message-"
    [] e = "no message" -> ""
    [] OTHER -> "other"

\* (a catch block that puts up with nothing)
ToleratedNever(opts, e) == FALSE

\* (a catch block that puts up with the conflict on the delay path too)
ToleratedOnAnyPath(opts, e) == Substr94(e) = "inequivalent arg 'x-expires'"

\* line 235: the conflict the scheduling path puts up with
Tolerated(opts, e) ==
  Truthy(Get(opts.schedule)) /\ Substr94(e) = "inequivalent arg 'x-expires'"

\* -------------------------------------------------------------------- state
VARIABLES
  clock,         \* the time new Date().getTime() returns, in ticks
  options,       \* this._options
  optionCalls,   \* calls of options() after construction
  uuids,         \* identifiers genUuid has handed out
  owner,         \* the pool: for each handle, the send it is lent to, 0 if none
  pc,            \* where each send's _send coroutine stands
  args,          \* the (data, opts) each send was called with
  now,           \* _send's now
  parsedOptions, \* _send's parsedOptions
  message,       \* _send's message
  plan,          \* what _setupDemitQueue computed before its first await
  demitQueue,    \* _send's demitQueue: "none" until resolved, then false or a descriptor
  queueWorker,   \* _setupDemitQueue's worker while the function runs, else 0
  worker,        \* _send's worker while the function runs, else 0
  span,          \* the span of the send: "none", "open", "finished"
  result,        \* how the send's promise settled
  calls,         \* broker operations each send has invoked
  routed,        \* the publish/sendToQueue call each send made
  acquired,      \* acquires of each send: for the declaration, for routing
  released,      \* release() calls on each of them
  destroyed,     \* destroy() calls on each of them
  thrown,        \* what the send's collaborators threw: <<where, error>>, in order
  sent,          \* 'sent' events each send has emitted
  active,        \* this._remit._namespace.active, as the caller of send finds it
  ambient,       \* how send dispatched each _send and the context its body ran in
  fnArgs,        \* the two (opts, time) pairs the resolver is applied to in SpecQueue
  fnOut          \* what it made of them, <<>> before

vars == <<clock, options, optionCalls, uuids, owner, pc, args, now, parsedOptions,
          message, plan, demitQueue, queueWorker, worker, span, result, calls,
          routed, acquired, released, destroyed, thrown, sent, active, ambient,
          fnArgs, fnOut>>

sendVars == <<pc, args, now, parsedOptions, message, plan, demitQueue, queueWorker,
              worker, span, result, calls, routed, acquired, released, destroyed,
              thrown, sent, uuids, owner, ambient>>

NoPlan == [kind |-> "none", queue |-> NoQueue, expiration |-> Absent,
           queueOpts |-> NoQueueOpts]
NoDescriptor == [kind |-> "none", queue |-> NoQueue, expiration |-> Absent]
False == [kind |-> "false", queue |-> NoQueue, expiration |-> Absent]
Descriptor(queue, expiration) ==
  [kind |-> "descriptor", queue |-> queue, expiration |-> expiration]

NoMessage ==
  [messageId |-> 0, timestamp |-> 0, priority |-> Absent, scheduled |-> Absent,
   expiration |-> Absent, delay |-> Absent]
NoRoute == [op |-> "", target |-> "", queue |-> NoQueue, routingKey |-> Absent,
            body |-> "", message |-> NoMessage]
Pending == [status |-> "pending", error |-> "", event |-> NoEvent]
Rejected(e) == [status |-> "rejected", error |-> e, event |-> NoEvent]
Resolved(ev) == [status |-> "resolved", error |-> "", event |-> ev]
Zero2 == [declare |-> 0, route |-> 0]

NoAmbient == [activeAtCall |-> FALSE, via |-> "", extendedCapture |-> Absent,
              bodyActive |-> FALSE]

\* the constructor: options(parsedOpts) on an emitter without defaults
ConstructorOpts == [NoOpts EXCEPT !.event = Str("order.created")]

InitEmitter ==
  /\ clock = 0
  /\ options = GenerateOptions(NoOpts, ConstructorOpts)
  /\ optionCalls = 0
  /\ uuids = 0
  /\ owner = [h \in Handles |-> 0]
  /\ pc = [s \in Sends |-> "idle"]
  /\ args = [s \in Sends |-> [data |-> Absent, opts |-> NoOpts]]
  /\ now = [s \in Sends |-> 0]
  /\ parsedOptions = [s \in Sends |-> NoOpts]
  /\ message = [s \in Sends |-> NoMessage]
  /\ plan = [s \in Sends |-> NoPlan]
  /\ demitQueue = [s \in Sends |-> NoDescriptor]
  /\ queueWorker = [s \in Sends |-> 0]
  /\ worker = [s \in Sends |-> 0]
  /\ span = [s \in Sends |-> "none"]
  /\ result = [s \in Sends |-> Pending]
  /\ calls = [s \in Sends |-> [assertQueue |-> 0, sendToQueue |-> 0, publish |-> 0]]
  /\ routed = [s \in Sends |-> NoRoute]
  /\ acquired = [s \in Sends |-> Zero2]
  /\ released = [s \in Sends |-> Zero2]
  /\ destroyed = [s \in Sends |-> Zero2]
  /\ thrown = [s \in Sends |-> <<>>]
  /\ sent = [s \in Sends |-> <<>>]
  /\ active = FALSE
  /\ ambient = [s \in Sends |-> NoAmbient]

Init ==
  /\ InitEmitter
  /\ fnArgs = <<>>
  /\ fnOut = <<>>

\* ------------------------------------------------------------------ the pool
\* acquire() hands out a handle that is lent to nobody; release(h) returns
\* it; destroy(h) discards it and its slot is filled again under the same number
Free(h) == owner[h] = 0
\* (a release that leaves the handle with the send)
ReleaseKept(own, h) == own

Release(own, h) == [own EXCEPT ![h] = 0]

\* (a destroy after which the pool has one slot less)
DestroyLost(own, h) == [own EXCEPT ![h] = -1]

\* (a destroy that leaves the handle with the send)
DestroyKept(own, h) == own

Destroy(own, h) == [own EXCEPT ![h] = 0]

\* (a catch block that throws an error of its own in place of the caught one)
CaughtMasked(e) == Rejected("destroy failed")

\* (a catch block that sends the coroutine back to acquire a handle and try again)
AfterThrowRetry == "acquire"

\* where `throw e` of line 166 leaves the coroutine: it has returned
AfterThrow == "done"

\* `throw e` in the catch blocks of lines 164-167 and 230-239: the promise
\* rejects with the error that was caught
Caught(e) == Rejected(e)

\* (an emit that reaches no listener)
EmitDropped(log, event) == log

\* this._emitter.emit('sent', event), line 161
Emit(log, event) == Append(log, event)

\* ---------------------------------------------------------------- envelope
\* (a range check that forgets the lower end)
PriorityInvalidUpperOnly(opts) ==
  Truthy(Get(opts.priority)) /\ JsGt(Get(opts.priority), Num(10))

\* lines 83-86
PriorityInvalid(opts) ==
  /\ Truthy(Get(opts.priority))
  /\ (JsGt(Get(opts.priority), Num(10)) \/ JsLt(Get(opts.priority), Num(0)))

\* lines 71-89
BuildMessage(id, time, opts) ==
  [NoMessage EXCEPT !.messageId = id, !.timestamp = time,
     !.priority = IF Truthy(Get(opts.priority)) THEN Get(opts.priority) ELSE Absent]

\* lines 123-131: the timing annotation of a message routed to a delay queue
Annotate(msg, opts, dq) ==
  IF dq.kind # "descriptor" THEN msg
  ELSE IF Truthy(Get(opts.schedule))
    THEN [msg EXCEPT !.scheduled = ToNumber(Get(opts.schedule)),
                     !.expiration = dq.expiration]
  ELSE [msg EXCEPT !.delay = Get(opts.delay)]

\* lines 133-144: the broker call
RouteCall(msg, opts, dq, body) ==
  IF dq.kind = "descriptor"
    THEN [op |-> "sendToQueue", target |-> "", queue |-> dq.queue,
          routingKey |-> Absent, body |-> body, message |-> msg]
    ELSE [op |-> "publish", target |-> Exchange, queue |-> NoQueue,
          routingKey |-> Get(opts.event), body |-> body, message |-> msg]

\* (an Object.assign whose target is this._options itself)
DefaultsAssignedInPlace(defaults, opts) == GenerateOptions(defaults, opts)

\* line 186: the target of Object.assign is a fresh object, and nothing else
\* in send or _send writes this._options
DefaultsAfter(defaults, opts) == defaults

\* lines 52-60: send pads its arguments, sets the third one when no context
\* is active and either calls _send or hands it to runAndReturn
InContext(isActive, via) == isActive \/ via = "runAndReturn"

SendDirectly(isActive) ==
  [activeAtCall |-> isActive, via |-> "_send", extendedCapture |-> Undefined,
   bodyActive |-> InContext(isActive, "_send")]

Send(isActive) ==
  LET via == IF isActive THEN "_send" ELSE "runAndReturn"
  IN  [activeAtCall |-> isActive, via |-> via,
       extendedCapture |-> IF ~isActive THEN True ELSE Undefined,
       bodyActive |-> InContext(isActive, via)]

\* ------------------------------------------------------------------ actions
\* send(data, opts): _send from its first line to its first suspension,
\* the synchronous part of _setupDemitQueue included (lines 63-119, 189-223)
Call(s, data, opts) ==
  LET parsed == GenerateOptions(options, opts)
      id == GenUuid(uuids)
      p == SetupPlan(parsed, clock)
  IN  /\ pc[s] = "idle"
      /\ \A t \in Sends : t < s => pc[t] # "idle"
      /\ args' = [args EXCEPT ![s] = [data |-> data, opts |-> opts]]
      /\ ambient' = [ambient EXCEPT ![s] = Send(active)]
      /\ now' = [now EXCEPT ![s] = clock]
      /\ parsedOptions' = [parsedOptions EXCEPT ![s] = parsed]
      /\ uuids' = id
      /\ message' = [message EXCEPT ![s] = BuildMessage(id, clock, parsed)]
      /\ IF PriorityInvalid(parsed)
           THEN /\ pc' = [pc EXCEPT ![s] = "done"]
                /\ result' = [result EXCEPT ![s] = Rejected(InvalidPriorityError)]
                /\ UNCHANGED <<plan, demitQueue, span>>
           ELSE /\ span' = [span EXCEPT ![s] = "open"]
                /\ plan' = [plan EXCEPT ![s] = p]
                /\ IF p.kind = "throw"
                     THEN /\ pc' = [pc EXCEPT ![s] = "done"]
                          /\ result' = [result EXCEPT ![s] = Rejected(InvalidDelayError)]
                          /\ UNCHANGED demitQueue
                     ELSE IF p.kind = "false"
                     THEN /\ pc' = [pc EXCEPT ![s] = "acquire"]
                          /\ demitQueue' = [demitQueue EXCEPT ![s] = False]
                          /\ UNCHANGED result
                     ELSE /\ pc' = [pc EXCEPT ![s] = "queueAcquire"]
                          /\ UNCHANGED <<demitQueue, result>>
      /\ options' = DefaultsAfter(options, opts)
      /\ UNCHANGED <<clock, optionCalls, owner, queueWorker, worker, calls,
                     routed, acquired, released, destroyed, thrown, sent,
                     fnArgs, fnOut, active>>

\* line 223 resumes with a handle and line 227 calls assertQueue
AcquireQueueWorker(s, h) ==
  /\ pc[s] = "queueAcquire"
  /\ Free(h)
  /\ owner' = [owner EXCEPT ![h] = s]
  /\ queueWorker' = [queueWorker EXCEPT ![s] = h]
  /\ acquired' = [acquired EXCEPT ![s].declare = @ + 1]
  /\ calls' = [calls EXCEPT ![s].assertQueue = @ + 1]
  /\ pc' = [pc EXCEPT ![s] = "assertQueue"]
  /\ UNCHANGED <<clock, options, optionCalls, uuids, args, now, parsedOptions, message,
                 plan, demitQueue, worker, span, result, routed, released, destroyed,
                 thrown, sent, fnArgs, fnOut,
                 active, ambient>>

\* assertQueue succeeds: lines 228-229, then _send goes on to line 120
AssertQueueOk(s) ==
  /\ pc[s] = "assertQueue"
  /\ owner' = Release(owner, queueWorker[s])
  /\ released' = [released EXCEPT ![s].declare = @ + 1]
  /\ demitQueue' = [demitQueue EXCEPT ![s] = Descriptor(plan[s].queue, plan[s].expiration)]
  /\ queueWorker' = [queueWorker EXCEPT ![s] = 0]
  /\ pc' = [pc EXCEPT ![s] = "acquire"]
  /\ UNCHANGED <<clock, options, optionCalls, uuids, args, now, parsedOptions, message,
                 plan, worker, span, result, calls, routed, acquired,
                 destroyed, thrown, sent, fnArgs, fnOut,
                 active, ambient>>

\* assertQueue throws e: lines 230-239
AssertQueueFails(s, e) ==
  /\ pc[s] = "assertQueue"
  /\ owner' = Destroy(owner, queueWorker[s])
  /\ destroyed' = [destroyed EXCEPT ![s].declare = @ + 1]
  /\ thrown' = [thrown EXCEPT ![s] = Append(@, <<"assertQueue", e>>)]
  /\ queueWorker' = [queueWorker EXCEPT ![s] = 0]
  /\ IF Tolerated(parsedOptions[s], e)
       THEN /\ demitQueue' = [demitQueue EXCEPT
                                ![s] = Descriptor(plan[s].queue, plan[s].expiration)]
            /\ pc' = [pc EXCEPT ![s] = "acquire"]
            /\ UNCHANGED result
       ELSE /\ result' = [result EXCEPT ![s] = Caught(e)]
            /\ pc' = [pc EXCEPT ![s] = "done"]
            /\ UNCHANGED demitQueue
  /\ UNCHANGED <<clock, options, optionCalls, uuids, args, now, parsedOptions, message,
                 plan, worker, span, calls, routed, acquired, released,
                 sent, fnArgs, fnOut,
                 active, ambient>>

\* how the try block of lines 122-148 may end: the broker call throws, or
\* span.finish throws after the release, or nothing throws
RouteOutcomes == {"ok", SpanError} \cup PublishErrors

\* line 120 resumes with a handle; lines 122-153 run to the yield, or to the
\* catch of lines 164-167
AcquireWorker(s, h, outcome) ==
  LET dq == demitQueue[s]
      msg == Annotate(message[s], parsedOptions[s], dq)
      call == RouteCall(msg, parsedOptions[s], dq, ParsedData(args[s].data))
  IN  /\ pc[s] = "acquire"
      /\ Free(h)
      /\ worker' = [worker EXCEPT ![s] = IF outcome = "ok" THEN h ELSE 0]
      /\ acquired' = [acquired EXCEPT ![s].route = @ + 1]
      /\ message' = [message EXCEPT ![s] = msg]
      /\ routed' = [routed EXCEPT ![s] = call]
      /\ calls' = [calls EXCEPT ![s][call.op] = @ + 1]
      /\ IF outcome \in PublishErrors
           THEN /\ owner' = Destroy([owner EXCEPT ![h] = s], h)
                /\ destroyed' = [destroyed EXCEPT ![s].route = @ + 1]
                /\ result' = [result EXCEPT ![s] = Caught(outcome)]
                /\ pc' = [pc EXCEPT ![s] = AfterThrow]
                /\ UNCHANGED <<released, span>>
           ELSE IF outcome = SpanError
           THEN /\ owner' = Destroy(Release([owner EXCEPT ![h] = s], h), h)
                /\ released' = [released EXCEPT ![s].route = @ + 1]
                /\ destroyed' = [destroyed EXCEPT ![s].route = @ + 1]
                /\ result' = [result EXCEPT ![s] = Caught(outcome)]
                /\ pc' = [pc EXCEPT ![s] = AfterThrow]
                /\ UNCHANGED span
           ELSE /\ owner' = Release([owner EXCEPT ![h] = s], h)
                /\ released' = [released EXCEPT ![s].route = @ + 1]
                /\ span' = [span EXCEPT ![s] = "finished"]
                /\ pc' = [pc EXCEPT ![s] = "yield"]
                /\ UNCHANGED <<destroyed, result>>
      /\ thrown' = IF outcome = "ok" THEN thrown
                   ELSE [thrown EXCEPT ![s] = Append(@, <<IF outcome = SpanError
                                                           THEN "span.finish"
                                                           ELSE call.op, outcome>>)]
      /\ UNCHANGED <<clock, options, optionCalls, uuids, args, now, parsedOptions, plan,
                     demitQueue, queueWorker, sent, fnArgs, fnOut,
                 active, ambient>>

\* how lines 155-163 may end: parseEvent throws, a 'sent' listener throws,
\* or the event is returned
YieldOutcomes == {"ok", ParseEventError, ListenerError}

\* the setImmediate of line 153 fires: lines 155-163, or the catch of 164-167
AfterYield(s, outcome) ==
  LET event == ParseEvent(message[s], Get(parsedOptions[s].event),
                          JsonParse(ParsedData(args[s].data)))
  IN  /\ pc[s] = "yield"
      /\ pc' = [pc EXCEPT ![s] = "done"]
      /\ worker' = [worker EXCEPT ![s] = 0]
      /\ sent' = IF outcome = ParseEventError THEN sent
                 ELSE [sent EXCEPT ![s] = Emit(@, event)]
      /\ thrown' = IF outcome = "ok" THEN thrown
                   ELSE [thrown EXCEPT ![s] = Append(@, <<IF outcome = ParseEventError
                                                           THEN "parseEvent"
                                                           ELSE "listener", outcome>>)]
      /\ IF outcome = "ok"
           THEN /\ result' = [result EXCEPT ![s] = Resolved(event)]
                /\ UNCHANGED <<owner, destroyed>>
           ELSE /\ owner' = Destroy(owner, worker[s])
                /\ destroyed' = [destroyed EXCEPT ![s].route = @ + 1]
                /\ result' = [result EXCEPT ![s] = Caught(outcome)]
      /\ UNCHANGED <<clock, options, optionCalls, uuids, args, now, parsedOptions, message,
                     plan, demitQueue, queueWorker, span, calls, routed, acquired,
                     released, fnArgs, fnOut,
                 active, ambient>>

\* options(opts), lines 41-45
SetOptions(opts) ==
  /\ optionCalls < MaxOptionsCalls
  /\ optionCalls' = optionCalls + 1
  /\ options' = GenerateOptions(options, opts)
  /\ UNCHANGED <<clock, fnArgs, fnOut, active>>
  /\ UNCHANGED sendVars

\* the caller enters or leaves a context of the namespace
SetActive ==
  /\ \A s \in Sends : pc[s] = "idle"
  /\ active' = ~active
  /\ UNCHANGED <<clock, options, optionCalls, fnArgs, fnOut>>
  /\ UNCHANGED sendVars

\* a millisecond passes
Tick ==
  /\ clock < MaxClock * OneMs
  /\ clock' = clock + OneMs
  /\ UNCHANGED <<options, optionCalls, fnArgs, fnOut, active>>
  /\ UNCHANGED sendVars

\* ----------------------------------------------------------- the callers
WithDelay(d) == [NoOpts EXCEPT !.delay = d]
WithPriority(p) == [NoOpts EXCEPT !.priority = Num(p)]
WithSchedule(sc) == [NoOpts EXCEPT !.schedule = sc]

\* concurrent sends: a direct send, a delayed one, a scheduled one, one with
\* a priority out of range and one with a delay the resolver refuses
CallOpts ==
  {NoOpts, WithDelay(Str("2ms")), WithDelay(DateAt(2 * OneMs)), WithPriority(11),
   WithDelay(Num(0))}

Step ==
  \/ \E s \in Sends, h \in Handles : AcquireQueueWorker(s, h)
  \/ \E s \in Sends : AssertQueueOk(s)
  \/ \E s \in Sends, e \in AssertErrors : AssertQueueFails(s, e)
  \/ \E s \in Sends, h \in Handles, o \in RouteOutcomes : AcquireWorker(s, h, o)
  \/ \E s \in Sends, o \in YieldOutcomes : AfterYield(s, o)

\* NumSends sends issued back to back within one millisecond
Next ==
  \/ \E s \in Sends, o \in CallOpts : Call(s, Obj, o)
  \/ Step

Spec == Init /\ [][Next]_vars

\* concurrent direct, delayed and scheduled sends, each one resumed once it
\* can go on: the event loop
\* runs every continuation that is ready, a pending acquire is served when a
\* handle is free, and every broker operation completes or fails
StepOf(s) ==
  \/ \E h \in Handles : AcquireQueueWorker(s, h)
  \/ AssertQueueOk(s)
  \/ \E e \in AssertErrors : AssertQueueFails(s, e)
  \/ \E h \in Handles, o \in RouteOutcomes : AcquireWorker(s, h, o)
  \/ \E o \in YieldOutcomes : AfterYield(s, o)

FairOpts == {NoOpts, WithDelay(Str("2ms")), WithDelay(DateAt(2 * OneMs))}

NextFair ==
  \/ \E s \in Sends, o \in FairOpts : Call(s, Obj, o)
  \/ \E s \in Sends : StepOf(s)

SpecFair == Init /\ [][NextFair]_vars /\ \A s \in Sends : WF_vars(StepOf(s))

\* a caller that awaits each send before the next one, and may call
\* options() in between
SeqOpts == {NoOpts, WithDelay(Str("2ms")), WithDelay(DateAt(2 * OneMs)), WithPriority(11)}

NextSeq ==
  \/ \E s \in Sends, o \in SeqOpts :
       /\ \A t \in Sends : t < s => pc[t] = "done"
       /\ Call(s, Obj, o)
  \/ \E o \in {WithDelay(Num(2 * OneMs)), WithPriority(11)} :
       /\ \A t \in Sends : pc[t] \in {"idle", "done"}
       /\ SetOptions(o)
  \/ Step

SpecSeq == Init /\ [][NextSeq]_vars

\* one send at a time, over the values a caller may pass as options and
\* payload, with options() and the clock moving before it
Priorities == {-1, 0, 1, 10, 11}
Delays ==
  {Str("5m"), Str("2ms"), Str("soon"), Num(1), Num(OneMs), Num(2 * OneMs), Num(0),
   Num(-OneMs), Null, Undefined, NaN, Obj, InvalidDate,
   DateAt(0), DateAt(OneMs), DateAt(2 * OneMs), DateAt(3 * OneMs)}
Schedules == {DateAt(OneMs), DateAt(3 * OneMs), InvalidDate, Str("tomorrow")}

SoloOpts ==
  {NoOpts}
    \cup {WithPriority(p) : p \in Priorities}
    \cup {WithDelay(d) : d \in Delays}
    \cup {WithSchedule(sc) : sc \in Schedules}
    \cup {[WithDelay(Str("2ms")) EXCEPT !.priority = Num(11)],
          [WithDelay(DateAt(3 * OneMs)) EXCEPT !.priority = Num(3)],
          [WithDelay(Str("2ms")) EXCEPT !.event = Str("user.deleted")]}

SoloArgs ==
  {[data |-> Obj, opts |-> o] : o \in SoloOpts}
    \cup {[data |-> d, opts |-> NoOpts] : d \in {Fn, Undefined, Null}}

DefaultOpts ==
  {WithDelay(Num(2 * OneMs)), WithDelay(DateAt(3 * OneMs)), WithPriority(11),
   WithSchedule(DateAt(3 * OneMs))}

NextSolo ==
  \/ \E a \in SoloArgs : Call(1, a.data, a.opts)
  \/ \E o \in DefaultOpts : SetOptions(o)
  \/ Tick
  \/ SetActive
  \/ Step

SpecSolo == Init /\ [][NextSolo]_vars

\* the resolver as a function: two sends' options and send times are drawn,
\* and each is normalised and resolved as _send does at lines 68 and 119
ResolverOpts ==
  {WithDelay(Str("2ms")), WithDelay(Num(2 * OneMs)), WithDelay(Num(OneMs)),
   WithDelay(Str("5m")), WithDelay(DateAt(2 * OneMs)), WithDelay(DateAt(3 * OneMs)),
   WithSchedule(DateAt(3 * OneMs)),
   [WithDelay(Str("2ms")) EXCEPT !.event = Str("user.deleted")]}
ResolverArgs == [opts : ResolverOpts, time : {k * OneMs : k \in 0..MaxClock}]

InitQueue ==
  /\ InitEmitter
  /\ fnArgs \in ResolverArgs \X ResolverArgs
  /\ fnOut = <<>>

Resolved1(a) ==
  LET parsed == GenerateOptions(options, a.opts)
  IN  [parsed |-> parsed, time |-> a.time, plan |-> SetupPlan(parsed, a.time)]

ResolveBoth ==
  /\ fnOut = <<>>
  /\ fnOut' = <<Resolved1(fnArgs[1]), Resolved1(fnArgs[2])>>
  /\ UNCHANGED <<clock, options, optionCalls, fnArgs, active>>
  /\ UNCHANGED sendVars

NextQueue ==
  \/ ResolveBoth
  \/ \E o \in DefaultOpts : SetOptions(o)

SpecQueue == InitQueue /\ [][NextQueue]_vars

\* ===================================================================== claims
Phases == {"declare", "route"}
Settled(s) == pc[s] = "done"
ThrewError(s, where, e) == \E i \in 1..Len(thrown[s]) : thrown[s][i] = <<where, e>>
RouteOps == {"publish", "sendToQueue"}

\* C1: when a send's promise has settled, every handle it acquired (for the
\* queue declaration or for routing) has had exactly one of release and
\* destroy called on it, whatever its collaborators threw.
C1_ExactlyOneReleaseOrDestroy ==
  \A s \in Sends : Settled(s) =>
    \A ph \in Phases : released[s][ph] + destroyed[s][ph] = acquired[s][ph]

\* C2: if publish or sendToQueue threw, the routing handle was destroyed and
\* not released, the send rejected with the very error that was thrown, and
\* no 'sent' was emitted for it.
C2_RouteFailureDestroysAndPropagates ==
  \A s \in Sends : \A op \in RouteOps : \A e \in PublishErrors :
    ThrewError(s, op, e) =>
      /\ Settled(s)
      /\ destroyed[s].route = 1
      /\ released[s].route = 0
      /\ result[s] = Rejected(e)
      /\ sent[s] = <<>>

C2_Witness ==
  \E s \in Sends : ThrewError(s, "sendToQueue", "Channel ended") /\ Settled(s)

\* a delay or schedule a caller supplied that names no duration and no time
MalformedDelay(v) ==
  \/ v.t = "string" /\ Ms(v.s).t = "undefined"
  \/ v.t \in {"nan", "object", "invalidDate"}
MalformedSchedule(v) == v # Absent /\ v.t # "date"
SuppliedMalformed(opts) ==
  \/ opts.delay # Absent /\ MalformedDelay(opts.delay)
  \/ opts.delay = Absent /\ MalformedSchedule(opts.schedule)
ValidSchedule(opts) == Get(opts.schedule).t = "date"
Called(s) == pc[s] # "idle"
BrokerCalls(s) == calls[s].assertQueue + calls[s].sendToQueue + calls[s].publish

\* C3: a send given a malformed delay or schedule, with no valid schedule in
\* its options (and a priority in range), rejects with the validation error
\* and publishes nothing.
C3_MalformedTimingRejected ==
  \A s \in Sends :
    (/\ Settled(s)
     /\ SuppliedMalformed(args[s].opts)
     /\ ~ValidSchedule(parsedOptions[s])
     /\ ~PriorityInvalid(parsedOptions[s]))
    => /\ result[s] = Rejected(InvalidDelayError)
       /\ calls[s].publish = 0

\* C4: a send whose priority is a number outside [0,10] rejects with the
\* priority error having acquired no handle, declared no queue and published
\* nothing; a priority inside [0,10] never gives the priority error.
C4_PriorityRange ==
  \A s \in Sends : Called(s) =>
    LET p == Get(parsedOptions[s].priority)
    IN  /\ (p.t = "number" /\ (p.n < 0 \/ p.n > 10)) =>
             /\ result[s] = Rejected(InvalidPriorityError)
             /\ acquired[s] = Zero2
             /\ BrokerCalls(s) = 0
        /\ (p.t = "number" /\ p.n >= 0 /\ p.n <= 10) =>
             result[s].error # InvalidPriorityError

C4_Witness ==
  \E s \in Sends :
    /\ Get(parsedOptions[s].priority) = Num(-1)
    /\ result[s] = Rejected(InvalidPriorityError)

Routed(s) == pc[s] \in {"yield", "done"} /\ acquired[s].route = 1

\* C5: no send invokes a broker operation twice. A send that resolved a
\* delay-queue descriptor made one assertQueue and, once routed, one
\* sendToQueue and no publish; a send whose resolver returned false made,
\* once routed, one publish and no assertQueue or sendToQueue. After a
\* failure that ends the send nothing more is invoked.
C5_SingleAttempt ==
  \A s \in Sends :
    /\ calls[s].assertQueue <= 1 /\ calls[s].sendToQueue <= 1 /\ calls[s].publish <= 1
    /\ calls[s].sendToQueue = 1 => calls[s].assertQueue = 1
    /\ demitQueue[s].kind = "descriptor" =>
         /\ calls[s].assertQueue = 1 /\ calls[s].publish = 0
         /\ Routed(s) => calls[s].sendToQueue = 1
    /\ demitQueue[s].kind = "false" =>
         /\ calls[s].assertQueue = 0 /\ calls[s].sendToQueue = 0
         /\ Routed(s) => calls[s].publish = 1
    /\ (Settled(s) /\ demitQueue[s].kind = "none") =>
         calls[s].sendToQueue = 0 /\ calls[s].publish = 0

C5_Witness ==
  \E s, u \in Sends :
    /\ Settled(s) /\ demitQueue[s].kind = "descriptor" /\ calls[s].sendToQueue = 1
    /\ Settled(u) /\ demitQueue[u].kind = "false" /\ calls[u].publish = 1
    /\ ThrewError(u, "publish", "Channel closed")

\* C6: on the scheduling path, when assertQueue threw the x-expires conflict,
\* the declaration handle was destroyed once and not released, the resolver
\* returned the computed {queue, expiration}, the conflict is not what the
\* send rejects with, and the send goes on: it acquires a handle, calls
\* sendToQueue on that queue and, nothing else throwing, resolves.
C6_ToleratedConflict ==
  \A s \in Sends :
    (ThrewError(s, "assertQueue", XExpiresConflict) /\ Truthy(Get(parsedOptions[s].schedule)))
    => /\ destroyed[s].declare = 1 /\ released[s].declare = 0
       /\ demitQueue[s] = Descriptor(plan[s].queue, plan[s].expiration)
       /\ result[s].error # XExpiresConflict
       /\ pc[s] \in {"acquire", "yield", "done"}
       /\ pc[s] \in {"yield", "done"} =>
            /\ acquired[s].route = 1
            /\ routed[s].op = "sendToQueue" /\ routed[s].queue = plan[s].queue
       /\ (Settled(s) /\ Len(thrown[s]) = 1) => result[s].status = "resolved"

C6_Witness ==
  \E s \in Sends :
    /\ ThrewError(s, "assertQueue", XExpiresConflict)
    /\ Truthy(Get(parsedOptions[s].schedule))
    /\ result[s].status = "resolved"
    /\ routed[s].op = "sendToQueue"

PastSchedule(s) == ValidSchedule(parsedOptions[s]) /\ parsedOptions[s].schedule.n <= now[s]
SubMsDelay(s) ==
  /\ ~Truthy(Get(parsedOptions[s].schedule))
  /\ Get(parsedOptions[s].delay).t = "number"
  /\ Get(parsedOptions[s].delay).n > 0
  /\ Get(parsedOptions[s].delay).n < OneMs

\* C7: a send whose schedule is a valid time at or before its now, or whose
\* delay is positive and below one millisecond, has its resolver return false
\* without acquiring a handle or declaring a queue; it publishes to the
\* exchange under the event's routing key and, nothing throwing, resolves.
C7_DueNowPublishesDirectly ==
  \A s \in Sends :
    (Called(s) /\ ~PriorityInvalid(parsedOptions[s]) /\ (PastSchedule(s) \/ SubMsDelay(s)))
    => /\ demitQueue[s] = False
       /\ acquired[s].declare = 0 /\ calls[s].assertQueue = 0
       /\ Routed(s) =>
            /\ routed[s].op = "publish" /\ routed[s].target = Exchange
            /\ routed[s].routingKey = Get(parsedOptions[s].event)
       /\ (Settled(s) /\ thrown[s] = <<>>) => result[s].status = "resolved"

C7_Witness ==
  \E s \in Sends :
    /\ PastSchedule(s) /\ parsedOptions[s].schedule.n = now[s] /\ now[s] > 0
    /\ result[s].status = "resolved" /\ routed[s].op = "publish"

NonNull(v) == v.t \notin {"absent", "undefined", "null"}
Exclusive(opts) == ~(NonNull(opts.delay) /\ NonNull(opts.schedule))

\* C8: neither the emitter's defaults nor the options a send runs with carry
\* both a delay and a schedule that are not null.
C8_DelayExcludesSchedule ==
  /\ Exclusive(options)
  /\ \A s \in Sends : Exclusive(parsedOptions[s])

Declares(r) == r.plan.kind = "declare"
Delaying(r) == ~Truthy(Get(r.parsed.schedule)) /\ Get(r.parsed.delay).t = "number"
Scheduling(r) == ValidSchedule(r.parsed)

\* C9: the queue name is decided by (exchange, event, group key) alone. Two
\* delaying sends with the same event and the same delay duration resolve to
\* the same queue name whatever their send times; two scheduling sends with
\* distinct schedule timestamps resolve to different queue names.
C9_QueueNameByGroup ==
  fnOut # <<>> =>
    LET a == fnOut[1]
        b == fnOut[2]
    IN  (Declares(a) /\ Declares(b)) =>
          /\ (a.plan.queue = b.plan.queue) <=>
               (/\ Get(a.parsed.event) = Get(b.parsed.event)
                /\ (IF Scheduling(a) THEN Num(a.parsed.schedule.n) ELSE Get(a.parsed.delay))
                     = (IF Scheduling(b) THEN Num(b.parsed.schedule.n) ELSE Get(b.parsed.delay)))
          /\ (/\ Delaying(a) /\ Delaying(b)
              /\ Get(a.parsed.event) = Get(b.parsed.event)
              /\ Get(a.parsed.delay).n = Get(b.parsed.delay).n)
             => a.plan.queue = b.plan.queue
          /\ (Scheduling(a) /\ Scheduling(b) /\ a.parsed.schedule.n # b.parsed.schedule.n)
             => a.plan.queue # b.plan.queue

C9_Witness ==
  /\ fnOut # <<>>
  /\ Declares(fnOut[1]) /\ Declares(fnOut[2])
  /\ Delaying(fnOut[1]) /\ Delaying(fnOut[2])
  /\ fnArgs[1].opts # fnArgs[2].opts
  /\ fnArgs[1].time # fnArgs[2].time
  /\ fnOut[1].plan.queue = fnOut[2].plan.queue

\* C10: sends issued back to back get distinct messageIds; a send emits
\* 'sent' at most once and only with its own event; and a send that was
\* valid and met no failure made exactly one publish or sendToQueue, emitted
\* its 'sent' once and resolved with that same event, carrying its own
\* messageId, however the other sends' steps fell between its own.
C10_BackToBackSends ==
  /\ \A s, u \in Sends :
       (s # u /\ Called(s) /\ Called(u)) => message[s].messageId # message[u].messageId
  /\ \A s \in Sends :
       /\ Len(sent[s]) <= 1
       /\ \A i \in 1..Len(sent[s]) : sent[s][i].eventId = message[s].messageId
       /\ (/\ Settled(s) /\ thrown[s] = <<>>
           /\ ~PriorityInvalid(parsedOptions[s]) /\ plan[s].kind # "throw")
          => /\ calls[s].publish + calls[s].sendToQueue = 1
             /\ result[s].status = "resolved"
             /\ result[s].event.eventId = message[s].messageId
             /\ sent[s] = <<result[s].event>>

C10_Witness ==
  \E s, u \in Sends :
    /\ s < u
    /\ pc[s] = "yield"
    /\ result[u].status = "resolved"
    /\ sent[u] = <<result[u].event>>
    /\ message[u].messageId # message[s].messageId

\* C11: the body of _send runs in an active context: a send called in an
\* active namespace calls _send directly with the third argument unset, a send
\* called outside one runs _send inside runAndReturn with the third argument
\* true
C11_BodyRunsInContext ==
  \A s \in Sends :
    Called(s) =>
      /\ ambient[s].bodyActive
      /\ ambient[s].activeAtCall =>
            ambient[s].via = "_send" /\ ambient[s].extendedCapture = Undefined
      /\ ~ambient[s].activeAtCall =>
            ambient[s].via = "runAndReturn" /\ ambient[s].extendedCapture = True

C11_Witness ==
  \E s \in Sends :
    /\ ~ambient[s].activeAtCall
    /\ ambient[s].via = "runAndReturn"
    /\ result[s].status = "resolved"

NoJsonForm(data) == JsonStringify(data) = Undefined
OwnErrors == {InvalidPriorityError, InvalidDelayError}

\* C12: a send whose payload has no JSON serialization is not rejected because
\* of it (it is rejected only by a priority or delay error or by an error a
\* collaborator threw), the body it hands to publish/sendToQueue is the text
\* 'null', and every event it notifies or returns carries a null payload
C12_UnserializablePayload ==
  \A s \in Sends :
    (Called(s) /\ NoJsonForm(args[s].data)) =>
      /\ result[s].status = "rejected" =>
            \/ result[s].error \in OwnErrors
            \/ \E i \in 1..Len(thrown[s]) : thrown[s][i][2] = result[s].error
      /\ Routed(s) => routed[s].body = "null"
      /\ \A i \in 1..Len(sent[s]) : sent[s][i].data = Null
      /\ result[s].status = "resolved" => result[s].event.data = Null

C12_Witness ==
  \E s \in Sends :
    /\ args[s].data = Fn
    /\ routed[s].body = "null"
    /\ result[s].status = "resolved"
    /\ sent[s] = <<result[s].event>>

Declared(s) == calls[s].assertQueue = 1
DelayingSend(s) ==
  /\ ~Truthy(Get(parsedOptions[s].schedule))
  /\ Get(parsedOptions[s].delay).t = "number"
  /\ Get(parsedOptions[s].delay).n >= OneMs
SchedulingSend(s) ==
  /\ ValidSchedule(parsedOptions[s])
  /\ parsedOptions[s].schedule.n - now[s] >= OneMs

\* C13: assertQueue is called with messageTtl = d and expires = 2*d by a send
\* delaying by d >= 1 ms, with expires = (s - t) + 60000 ms and no messageTtl
\* by a send scheduling at s from send time t (s - t >= 1 ms), and in both
\* cases with the origin exchange and the event as dead-letter target.
C13_DeclarationParameters ==
  \A s \in Sends :
    Declared(s) =>
      LET q == plan[s].queueOpts
          d == Get(parsedOptions[s].delay)
          e == parsedOptions[s].schedule.n - now[s]
      IN  /\ DelayingSend(s) =>
                /\ q.messageTtl = d
                /\ q.expires = Num(2 * d.n)
                /\ q.deadLetterExchange = Exchange
                /\ q.deadLetterRoutingKey = Get(parsedOptions[s].event)
          /\ SchedulingSend(s) =>
                /\ q.messageTtl = Absent
                /\ q.expires = Num(e + 60000 * OneMs)
                /\ q.deadLetterExchange = Exchange
                /\ q.deadLetterRoutingKey = Get(parsedOptions[s].event)

\* C14: a handle that a send holds leaves that send only by a step of the
\* same send: no other send releases or destroys it.
C14_OnlyHolderGivesBack ==
  [][\A h \in Handles :
       (owner[h] # 0 /\ owner'[h] # owner[h]) => pc'[owner[h]] # pc[owner[h]]]_vars

HasSchedule(s) == Truthy(Get(parsedOptions[s].schedule))
FatalDeclareError(s, e) ==
  ThrewError(s, "assertQueue", e) /\ ~(HasSchedule(s) /\ e = XExpiresConflict)

\* C15: when assertQueue fails with anything but the x-expires conflict of a
\* scheduling send (the x-expires conflict of a delaying send included), the
\* declaration handle is destroyed and not released, the send is rejected
\* with that error, and it acquires no routing handle, calls neither publish
\* nor sendToQueue and emits no 'sent'.
C15_DeclareFailureIsFatal ==
  \A s \in Sends : \A e \in AssertErrors :
    FatalDeclareError(s, e) =>
      /\ destroyed[s].declare = 1 /\ released[s].declare = 0
      /\ Settled(s) /\ result[s] = Rejected(e)
      /\ acquired[s] = [declare |-> 1, route |-> 0]
      /\ calls[s].publish = 0 /\ calls[s].sendToQueue = 0
      /\ sent[s] = <<>>

C15_Witness ==
  \E s \in Sends :
    /\ ~HasSchedule(s)
    /\ FatalDeclareError(s, XExpiresConflict)
    /\ result[s] = Rejected(XExpiresConflict)

Holds(s) == {h \in Handles : owner[h] = s}
RoutedCalls(s) == calls[s].publish + calls[s].sendToQueue

\* C16: a send does its steps in order, each once: the delay is resolved
\* before the routing handle is acquired; at the yield the broker call has
\* been made, the handle released and the span finished, and nothing has been
\* emitted; 'sent' is emitted once, after the yield, while the send holds no
\* handle; the event returned is the one emitted.
C16_StepOrder ==
  \A s \in Sends :
    /\ acquired[s].route = 1 =>
          demitQueue[s] # NoDescriptor /\ acquired[s].declare = calls[s].assertQueue
    /\ pc[s] = "yield" =>
          /\ acquired[s].route = 1 /\ RoutedCalls(s) = 1 /\ released[s].route = 1
          /\ span[s] = "finished"
          /\ sent[s] = <<>> /\ result[s] = Pending
    /\ sent[s] # <<>> =>
          /\ Len(sent[s]) = 1 /\ pc[s] = "done"
          /\ RoutedCalls(s) = 1 /\ released[s].route = 1 /\ span[s] = "finished"
          /\ Holds(s) = {}
    /\ result[s].status = "resolved" =>
          /\ sent[s] = <<result[s].event>>
          /\ acquired[s].route = 1

C16_Witness ==
  \E s \in Sends :
    /\ result[s].status = "resolved"
    /\ calls[s] = [assertQueue |-> 1, sendToQueue |-> 1, publish |-> 0]
    /\ sent[s] = <<result[s].event>>
    /\ span[s] = "finished"

\* C17: a send never holds more than one handle, and it holds none when it
\* asks for the routing handle: the declaration handle has by then been
\* released or destroyed, after a declaration that succeeded as after a
\* tolerated conflict.
C17_AtMostOneHandle ==
  \A s \in Sends :
    /\ Cardinality(Holds(s)) <= 1
    /\ (pc[s] = "acquire" \/ acquired[s].route = 1) =>
          /\ Holds(s) = {}
          /\ released[s].declare + destroyed[s].declare = acquired[s].declare

C17_Witness ==
  \E s \in Sends :
    /\ pc[s] = "acquire"
    /\ ThrewError(s, "assertQueue", XExpiresConflict)
    /\ destroyed[s].declare = 1
    /\ Holds(s) = {}

\* C18: the message given to sendToQueue carries the annotation of the branch
\* its queue was declared on: headers.scheduled = the schedule and expiration
\* = schedule - now, without headers.delay, for a queue declared without
\* messageTtl; headers.delay = the delay, without expiration or
\* headers.scheduled, for a queue declared with messageTtl. A published
\* message carries none of the three.
C18_AnnotationMatchesDeclaration ==
  \A s \in Sends :
    LET m == routed[s].message
        q == plan[s].queueOpts
        po == parsedOptions[s]
    IN  /\ (routed[s].op = "sendToQueue" /\ q.messageTtl = Absent) =>
              /\ m.scheduled = ToNumber(Get(po.schedule))
              /\ m.expiration = JsSub(ToNumber(Get(po.schedule)), Num(now[s]))
              /\ m.delay = Absent
        /\ (routed[s].op = "sendToQueue" /\ q.messageTtl # Absent) =>
              /\ m.delay = Get(po.delay) /\ NonNull(m.delay)
              /\ m.expiration = Absent
              /\ m.scheduled = Absent
        /\ routed[s].op = "publish" =>
              m.scheduled = Absent /\ m.delay = Absent /\ m.expiration = Absent

Unfinished(s) == pc[s] \notin {"idle", "done"}
InAcquire(s) == pc[s] \in {"queueAcquire", "acquire"}
AllBlocked ==
  /\ \E s \in Sends : Unfinished(s)
  /\ \A s \in Sends : Unfinished(s) => InAcquire(s)
  /\ \A h \in Handles : ~Free(h)

\* C19: every send that was issued is eventually resolved or rejected (from
\* some point on no issued send is unfinished: issued and finished sends stay
\* so); no state has every unfinished send waiting in acquire with no handle
\* free; no send waits in acquire while it holds a handle.
C19_EverySendTerminates ==
  /\ <>[](\A s \in Sends : Called(s) => (Settled(s) /\ result[s] # Pending))
  /\ [](~AllBlocked)
  /\ [](\A s \in Sends : InAcquire(s) => Holds(s) = {})

C19_Witness ==
  /\ \A s \in Sends : Settled(s) /\ result[s] # Pending
  /\ \E s \in Sends : destroyed[s].declare = 1 /\ acquired[s].route = 1
  /\ \E s \in Sends : result[s].status = "resolved"

\* C20: a step changes the defaults only if it is a call of options(); a
\* send called without options of its own runs with the defaults as they are
\* at its call, whatever options earlier sends were given.
C20_DefaultsFrame ==
  [][/\ options' # options => (optionCalls' = optionCalls + 1 /\ pc' = pc)
     /\ \A s \in Sends :
          (pc[s] = "idle" /\ pc'[s] # "idle" /\ args'[s].opts = NoOpts) =>
            parsedOptions'[s] = options]_vars

C20_Witness ==
  /\ NumSends >= 2
  /\ args[1].opts = WithDelay(Str("2ms")) /\ calls[1].sendToQueue = 1
  /\ args[2].opts = NoOpts /\ calls[2].assertQueue = 0 /\ calls[2].publish = 1
  /\ options = ConstructorOpts

====
